---- MODULE Spec2Model ----
\* Model of the FingerCounterApp component (src/src/components/finger-counter-app.tsx):
\* the React state of the component, the browser objects it drives (camera
\* request, interval timer, detection call in flight, speech engine queue) and
\* one action per event handler / callback.  A handler runs to completion and
\* its state updates commit together (single-threaded event loop, batched
\* updates); an await, a timer and a speech event are separate actions.
\* A handler that tests its own precondition (handleScanAndAnnounce,
\* handleCalculation) can run whenever its button is rendered, so that its test
\* is what decides; a handler without one runs when its button is enabled.
\* React is modelled as in a production build: a state updater runs once.
\* After the unmount the state of the component is frozen (its setters do
\* nothing) and no handler runs, but promises, timers and speech events that
\* are still pending run their callbacks, with their effects on the browser.
EXTENDS Integers, Sequences, FiniteSets, TLC

\* ---------------------------------------------------------------- constants
SCAN_COUNTDOWN_SECONDS == 3
HISTORY_LIMIT == 50

\* ------------------------------------------------------------------- bounds
MaxScans == 2
MaxFinger == 1
MaxSelectable == 1
MaxCalcHistory == 3
MaxCalcValue == 6

VARIABLES
  permissionStatus,        \* useState<PermissionStatus>
  stream,                  \* useState<MediaStream | null>: None or <<stream id>>
  permissionQuery,         \* mount effect's navigator.permissions.query: "pending" | "done"
  getUserMediaPending,     \* number of getUserMedia promises not yet settled
  nextStream,              \* id of the next MediaStream the browser hands out
  detectedFingers,         \* useState<number | null>
  isLoading,               \* useState(false)
  isSpeaking,              \* useState(false)
  error,                   \* useState<string | null>
  scanCountdown,           \* useState<number | null>
  history,                 \* useState<HistoryItem[]>
  selectedHistoryItemIds,  \* useState<string[]>
  calculationResult,       \* useState<number | string | null>
  countdownIntervalRef,    \* useRef: None or <<timer id>> (never reset to null)
  timers,                  \* running intervals: [id, history]; history is what the callback's
                           \* captureFrameAndDetect reads of the `history` it closed over
  detectInFlight,          \* detection calls awaiting their result: [call, history]
  speechSupported,         \* 'speechSynthesis' in window
  utterance,               \* speech engine, head of the queue: "none" | "pending" | "speaking"
  queuedUtterances,        \* speech engine, number of utterances queued behind the head
  cancelledUtterances,     \* cancelled utterances whose end/error event is still to be delivered
  nextId,                  \* crypto.randomUUID(): next fresh id
  now,                     \* Date.now(), in seconds
  lastOp,                  \* the handler or callback that ran last
  scansStarted,            \* number of accepted triggers
  countdownsCompleted,     \* number of countdowns that reached 0
  captureStarts,           \* number of calls of captureFrameAndDetect
  detectCalls,             \* number of calls of detectNumberOfFingers
  speakRequests,           \* number of speechSynthesis.speak calls
  mounted,                 \* the component is mounted
  liveStreams              \* MediaStreams handed out whose tracks have not been stopped

camVars == <<permissionStatus, stream, permissionQuery, getUserMediaPending, nextStream>>
scanVars == <<detectedFingers, isLoading, isSpeaking, error, scanCountdown>>
histVars == <<history, selectedHistoryItemIds, calculationResult, nextId>>
timerVars == <<countdownIntervalRef, timers, now>>
speechVars == <<speechSupported, utterance, queuedUtterances, cancelledUtterances, speakRequests>>
countVars == <<scansStarted, countdownsCompleted, captureStarts, detectCalls>>

lifeVars == <<mounted, liveStreams>>

vars == <<camVars, scanVars, histVars, timerVars, detectInFlight, speechVars, countVars, lastOp, lifeVars>>

\* ------------------------------------------------------------------ helpers
None == <<>>
Some(v) == <<v>>
Val(o) == o[1]

Last(s) == s[Len(s)]

FingerValues == 0..MaxFinger

\* slice(0, n) in the place of slice(-n): keeps the oldest entries
SliceFirst(s, n) == IF Len(s) <= n THEN s ELSE SubSeq(s, 1, n)

\* Array.prototype.slice(-n)
SliceLast(s, n) == IF Len(s) <= n THEN s ELSE SubSeq(s, Len(s) - n + 1, Len(s))

HistoryItem(id, value, timestamp) == [id |-> id, value |-> value, timestamp |-> timestamp]

HistoryIds(h) == {h[i].id : i \in 1..Len(h)}

\* array.includes(x)
Includes(s, x) == \E i \in 1..Len(s) : s[i] = x

\* array.filter(p): here prevSelected.filter(itemId => itemId !== id)
FilterOut(s, x) == SelectSeq(s, LAMBDA itemId : itemId # x)

\* history.filter(item => selectedHistoryItemIds.includes(item.id))
SelectedItems(h, sel) == SelectSeq(h, LAMBDA item : Includes(sel, item.id))

\* selectedItems.map(item => item.value)
Values(items) == [i \in 1..Len(items) |-> items[i].value]

\* values.reduce((sum, val) => sum + val, 0)
RECURSIVE ReduceSum(_)
ReduceSum(vals) == IF vals = <<>> THEN 0 ELSE vals[1] + ReduceSum(Tail(vals))

\* the product reduced from 0 instead of 1
RECURSIVE ReduceProductFromZero(_)
ReduceProductFromZero(vals) == IF vals = <<>> THEN 0 ELSE vals[1] * ReduceProductFromZero(Tail(vals))

\* values.reduce((prod, val) => prod * val, 1)
RECURSIVE ReduceProduct(_)
ReduceProduct(vals) == IF vals = <<>> THEN 1 ELSE vals[1] * ReduceProduct(Tail(vals))

\* the quotient cut after two decimals instead of rounded
ToFixed2Truncated(a, b) == (100 * a) \div b

\* parseFloat((a / b).toFixed(2)) in hundredths, for a >= 0, b > 0: toFixed
\* picks the nearest multiple of 0.01, the larger one on a tie
ToFixed2(a, b) == (2 * 100 * a + b) \div (2 * b)

NumberResult(hundredths) == [kind |-> "number", hundredths |-> hundredths, text |-> ""]
MessageResult(text) == [kind |-> "message", hundredths |-> 0, text |-> text]

\* --------------------------------------------------------- error messages
ERR_PERMISSION_DENIED == "Camera permission was denied. Please enable it in your browser settings and refresh the page."
ERR_NO_CAMERA == "No camera found. Please ensure a camera is connected and enabled."
ERR_CAMERA_OTHER == "Failed to access camera"
ERR_PREVIOUSLY_DENIED == "Camera permission was previously denied. Please enable it in your browser settings."
ERR_VIDEO_NOT_READY == "Video stream is not available or not ready. Please ensure camera is active."
ERR_DRAW == "Failed to capture frame for AI processing. Video stream might be corrupted or inaccessible."
ERR_EMPTY_FRAME == "Failed to capture frame from video."
ERR_NO_CONTEXT == "Failed to get canvas context."
ERR_DETECTION == "AI detection failed"
ERR_VIDEO_ELEMENT == "Video element error"

CameraErrorClasses == {"NotAllowedError", "NotFoundError", "other"}

CameraErrorMessage(class) ==
  CASE class = "NotAllowedError" -> ERR_PERMISSION_DENIED
    [] class = "NotFoundError" -> ERR_NO_CAMERA
    [] OTHER -> ERR_CAMERA_OTHER

\* what the capture step finds: the video element's state, the canvas context,
\* drawImage and toDataURL
CaptureOutcomes == {"ok", "videoNotReady", "noContext", "drawThrows", "emptyPayload"}

CaptureErrorMessage(outcome) ==
  CASE outcome = "videoNotReady" -> ERR_VIDEO_NOT_READY
    [] outcome = "drawThrows" -> ERR_DRAW
    [] outcome = "emptyPayload" -> ERR_EMPTY_FRAME
    [] OTHER -> ERR_NO_CONTEXT

\* ------------------------------------------------------------ render guards
\* the video element, the scan button and the history/calculator cards are
\* rendered only under permissionStatus === 'granted'
GrantedViewRendered == mounted /\ permissionStatus = "granted"

\* a state setter called after the component unmounted changes nothing
SetState(value, current) == IF mounted THEN value ELSE current

\* the guard without its isSpeaking disjunct
ScanBlockedWithoutSpeaking == isLoading \/ scanCountdown # None

\* isLoading || isSpeaking || scanCountdown !== null
ScanBlocked == isLoading \/ isSpeaking \/ scanCountdown # None

\* the scan state of the spec, read off the three flags the way the scan
\* button's label is
ScanState ==
  IF scanCountdown # None THEN "CountingDown"
  ELSE IF isLoading THEN "Capturing"
  ELSE IF isSpeaking THEN "Speaking"
  ELSE "Idle"

\* --------------------------------------------------------------------- Init
InitCommon ==
  /\ isLoading = FALSE
  /\ isSpeaking = FALSE
  /\ error = None
  /\ scanCountdown = None
  /\ selectedHistoryItemIds = <<>>
  /\ calculationResult = None
  /\ countdownIntervalRef = None
  /\ timers = {}
  /\ detectInFlight = {}
  /\ speechSupported \in BOOLEAN
  /\ utterance = "none"
  /\ queuedUtterances = 0
  /\ cancelledUtterances = 0
  /\ lastOp = "mount"
  /\ scansStarted = 0
  /\ countdownsCompleted = 0
  /\ captureStarts = 0
  /\ detectCalls = 0
  /\ speakRequests = 0
  /\ mounted = TRUE

Init ==
  /\ InitCommon
  /\ permissionStatus = "idle"
  /\ stream = None
  /\ permissionQuery = "pending"
  /\ getUserMediaPending = 0
  /\ nextStream = 1
  /\ liveStreams = {}
  /\ detectedFingers = None
  /\ history = <<>>
  /\ nextId = 1
  /\ now = 0

\* ------------------------------------------------------------------ camera
\* requestCameraPermission up to its await
RequestCameraPermissionStart ==
  /\ permissionStatus' = SetState("pending", permissionStatus)
  /\ error' = SetState(None, error)
  /\ getUserMediaPending' = getUserMediaPending + 1

\* the mount effect: navigator.permissions.query(...).then(...)
PermissionQueryResolved(state) ==
  /\ permissionQuery = "pending"
  /\ permissionQuery' = "done"
  /\ CASE state = "granted" ->
            /\ RequestCameraPermissionStart
            /\ lastOp' = "requestCamera"
       [] state = "denied" ->
            /\ permissionStatus' = SetState("denied", permissionStatus)
            /\ error' = SetState(Some(ERR_PREVIOUSLY_DENIED), error)
            /\ getUserMediaPending' = getUserMediaPending
            /\ lastOp' = "queryDenied"
       [] OTHER ->
            /\ UNCHANGED <<permissionStatus, error, getUserMediaPending>>
            /\ lastOp' = "queryPrompt"
  /\ UNCHANGED <<stream, nextStream, detectedFingers, isLoading, isSpeaking, scanCountdown>>
  /\ UNCHANGED <<histVars, timerVars, detectInFlight, speechVars, countVars, lifeVars>>

\* the Enable Camera button: rendered while idle or pending, disabled while pending
EnableCamera ==
  /\ mounted
  /\ permissionStatus = "idle"
  /\ RequestCameraPermissionStart
  /\ lastOp' = "requestCamera"
  /\ UNCHANGED <<stream, permissionQuery, nextStream, detectedFingers, isLoading, isSpeaking, scanCountdown>>
  /\ UNCHANGED <<histVars, timerVars, detectInFlight, speechVars, countVars, lifeVars>>

\* the cleanup of the effect on [stream]: stream?.getTracks().forEach(track => track.stop())
\* for the `stream` of the render that ran the effect
StreamEffectCleanup(live, s) == IF s = None THEN live ELSE live \ {Val(s)}

\* getUserMedia resolves: the try branch of requestCameraPermission; the new
\* `stream` state re-runs the effect on [stream], whose cleanup stops the
\* tracks of the stream it replaces
GetUserMediaResolved ==
  /\ getUserMediaPending > 0
  /\ getUserMediaPending' = getUserMediaPending - 1
  /\ stream' = SetState(Some(nextStream), stream)
  /\ nextStream' = nextStream + 1
  /\ liveStreams' = (IF mounted THEN StreamEffectCleanup(liveStreams, stream) ELSE liveStreams)
                       \cup {nextStream}
  /\ permissionStatus' = SetState("granted", permissionStatus)
  /\ lastOp' = "cameraGranted"
  /\ UNCHANGED <<permissionQuery, scanVars, histVars, timerVars, detectInFlight, speechVars, countVars>>
  /\ UNCHANGED mounted

\* getUserMedia rejects: the catch branch of requestCameraPermission
GetUserMediaRejected(class) ==
  /\ getUserMediaPending > 0
  /\ getUserMediaPending' = getUserMediaPending - 1
  /\ error' = SetState(Some(CameraErrorMessage(class)), error)
  /\ permissionStatus' = SetState("denied", permissionStatus)
  /\ lastOp' = "cameraFailed"
  /\ UNCHANGED <<stream, permissionQuery, nextStream, detectedFingers, isLoading, isSpeaking, scanCountdown>>
  /\ UNCHANGED <<histVars, timerVars, detectInFlight, speechVars, countVars, lifeVars>>

\* the video element's onError
VideoError ==
  /\ GrantedViewRendered
  /\ error' = Some(ERR_VIDEO_ELEMENT)
  /\ lastOp' = "videoError"
  /\ UNCHANGED <<camVars, detectedFingers, isLoading, isSpeaking, scanCountdown>>
  /\ UNCHANGED <<histVars, timerVars, detectInFlight, speechVars, countVars, lifeVars>>

\* ------------------------------------------------------------ speech engine
\* the utterances the speech engine holds: the head, if any, and those behind
\* it; speechSynthesis.cancel() removes them all
InEngine(head, queued) == IF head = "none" THEN 0 ELSE 1 + queued

\* the engine's queue after its head ended or failed: the next utterance, if
\* any, becomes the head
HeadAfterCurrent(queued) == IF queued > 0 THEN "pending" ELSE "none"

\* and the number of utterances behind that head
QueuedAfterCurrent(queued) == IF queued > 0 THEN queued - 1 ELSE 0

\* speakNumber without its speechSynthesis.cancel(): speak() queues the new
\* utterance behind what the engine holds
SpeakNumberWithoutCancel ==
  IF ~speechSupported
  THEN /\ isSpeaking' = SetState(FALSE, isSpeaking)
       /\ UNCHANGED <<utterance, queuedUtterances, cancelledUtterances, speakRequests>>
  ELSE /\ isSpeaking' = isSpeaking
       /\ cancelledUtterances' = cancelledUtterances
       /\ utterance' = IF utterance = "none" THEN "pending" ELSE utterance
       /\ queuedUtterances' = IF utterance = "none" THEN queuedUtterances
                              ELSE queuedUtterances + 1
       /\ speakRequests' = speakRequests + 1

\* speakNumber(number): the unsupported branch only resets the flag and shows
\* a toast; otherwise cancel() drops the queued or spoken utterance (its end or
\* error event is delivered later) and speak() queues the new one
SpeakNumber ==
  IF ~speechSupported
  THEN /\ isSpeaking' = SetState(FALSE, isSpeaking)
       /\ UNCHANGED <<utterance, queuedUtterances, cancelledUtterances, speakRequests>>
  ELSE /\ isSpeaking' = isSpeaking
       /\ cancelledUtterances' = cancelledUtterances + InEngine(utterance, queuedUtterances)
       /\ utterance' = "pending"
       /\ queuedUtterances' = 0
       /\ speakRequests' = speakRequests + 1

\* utterance.onstart
UtteranceStart ==
  /\ utterance = "pending"
  /\ utterance' = "speaking"
  /\ isSpeaking' = SetState(TRUE, isSpeaking)
  /\ lastOp' = "utteranceStart"
  /\ UNCHANGED <<camVars, detectedFingers, isLoading, error, scanCountdown>>
  /\ UNCHANGED <<histVars, timerVars, detectInFlight, countVars, lifeVars>>
  /\ UNCHANGED <<speechSupported, queuedUtterances, cancelledUtterances, speakRequests>>

\* utterance.onend
UtteranceEnd ==
  /\ utterance = "speaking"
  /\ utterance' = HeadAfterCurrent(queuedUtterances)
  /\ queuedUtterances' = QueuedAfterCurrent(queuedUtterances)
  /\ isSpeaking' = SetState(FALSE, isSpeaking)
  /\ lastOp' = "utteranceEnd"
  /\ UNCHANGED <<camVars, detectedFingers, isLoading, error, scanCountdown>>
  /\ UNCHANGED <<histVars, timerVars, detectInFlight, countVars, lifeVars>>
  /\ UNCHANGED <<speechSupported, cancelledUtterances, speakRequests>>

\* utterance.onerror with the setError call that the source has commented out
UtteranceErrorSetsMainError ==
  /\ utterance \in {"pending", "speaking"}
  /\ utterance' = HeadAfterCurrent(queuedUtterances)
  /\ queuedUtterances' = QueuedAfterCurrent(queuedUtterances)
  /\ isSpeaking' = SetState(FALSE, isSpeaking)
  /\ error' = SetState(Some("Could not speak the number"), error)
  /\ lastOp' = "utteranceError"
  /\ UNCHANGED <<camVars, detectedFingers, isLoading, scanCountdown>>
  /\ UNCHANGED <<histVars, timerVars, detectInFlight, countVars, lifeVars>>
  /\ UNCHANGED <<speechSupported, cancelledUtterances, speakRequests>>

\* utterance.onerror of the current utterance (synthesis failed before or while speaking)
UtteranceError ==
  /\ utterance \in {"pending", "speaking"}
  /\ utterance' = HeadAfterCurrent(queuedUtterances)
  /\ queuedUtterances' = QueuedAfterCurrent(queuedUtterances)
  /\ isSpeaking' = SetState(FALSE, isSpeaking)
  /\ lastOp' = "utteranceError"
  /\ UNCHANGED <<camVars, detectedFingers, isLoading, error, scanCountdown>>
  /\ UNCHANGED <<histVars, timerVars, detectInFlight, countVars, lifeVars>>
  /\ UNCHANGED <<speechSupported, cancelledUtterances, speakRequests>>

\* onend / onerror of an utterance that cancel() removed
CancelledUtteranceEvent ==
  /\ cancelledUtterances > 0
  /\ cancelledUtterances' = cancelledUtterances - 1
  /\ isSpeaking' = SetState(FALSE, isSpeaking)
  /\ lastOp' = "cancelledUtteranceEvent"
  /\ UNCHANGED <<camVars, detectedFingers, isLoading, error, scanCountdown>>
  /\ UNCHANGED <<histVars, timerVars, detectInFlight, countVars, lifeVars>>
  /\ UNCHANGED <<speechSupported, utterance, queuedUtterances, speakRequests>>

\* --------------------------------------------------------- scan sequencing
\* clearInterval(countdownIntervalRef.current)
ClearInterval(ts, ref) == {t \in ts : ref = None \/ t.id # Val(ref)}

\* useCallback(..., [history, toast]): captureFrameAndDetect closes over the
\* `history` of the render that created it.  It reads only history.length and
\* the last entry, so the closure is kept as history.slice(-1)
ClosedOverHistory(h) == IF Len(h) = 0 THEN <<>> ELSE <<Last(h)>>

\* handleScanAndAnnounce: the early return, or the start of a countdown whose
\* interval callback keeps this render's captureFrameAndDetect (and its `history`)
HandleScanAndAnnounce ==
  /\ GrantedViewRendered
  /\ stream # None
  /\ IF ScanBlocked
     THEN /\ lastOp' = "scanIgnored"
          /\ UNCHANGED <<scanVars, timerVars, scansStarted>>
     ELSE /\ scansStarted < MaxScans
          /\ detectedFingers' = None
          /\ error' = None
          /\ scanCountdown' = Some(SCAN_COUNTDOWN_SECONDS)
          /\ timers' = ClearInterval(timers, countdownIntervalRef)
                         \cup {[id |-> scansStarted + 1, history |-> ClosedOverHistory(history)]}
          /\ countdownIntervalRef' = Some(scansStarted + 1)
          /\ scansStarted' = scansStarted + 1
          /\ lastOp' = "scanAccepted"
          /\ UNCHANGED <<isLoading, isSpeaking, now>>
  /\ UNCHANGED <<camVars, histVars, detectInFlight, speechVars, lifeVars>>
  /\ UNCHANGED <<countdownsCompleted, captureStarts, detectCalls>>

\* captureFrameAndDetect whose empty-payload branch lacks its return: the error
\* is set and the detection call is issued all the same
CaptureFrameAndDetectNoReturn(outcome, h) ==
  /\ captureStarts' = captureStarts + 1
  /\ IF outcome \in {"ok", "emptyPayload"}
     THEN /\ isLoading' = TRUE
          /\ detectCalls' = detectCalls + 1
          /\ detectInFlight' = detectInFlight \cup {[call |-> detectCalls + 1, history |-> h]}
          /\ error' = IF outcome = "ok" THEN error ELSE Some(ERR_EMPTY_FRAME)
          /\ lastOp' = IF outcome = "ok" THEN "detectCalled" ELSE "captureFailed"
     ELSE /\ isLoading' = FALSE
          /\ error' = SetState(Some(ERR_NO_CONTEXT), error)
          /\ UNCHANGED <<detectCalls, detectInFlight>>
          /\ lastOp' = "captureFailed"

\* captureFrameAndDetect up to its await: the early returns of the capture
\* step, or the detection call issued with isLoading set
CaptureFrameAndDetect(outcome, h) ==
  /\ captureStarts' = captureStarts + 1
  /\ IF outcome = "ok"
     THEN /\ isLoading' = TRUE
          /\ detectCalls' = detectCalls + 1
          /\ detectInFlight' = detectInFlight \cup {[call |-> detectCalls + 1, history |-> h]}
          /\ error' = error
          /\ lastOp' = "detectCalled"
     ELSE /\ isLoading' = FALSE
          /\ error' = SetState(Some(CaptureErrorMessage(outcome)), error)
          /\ UNCHANGED <<detectCalls, detectInFlight>>
          /\ lastOp' = "captureFailed"

\* the updater that stops the countdown one tick early
CountdownAfterTickEarly(prevCountdown) ==
  IF prevCountdown = None THEN None
  ELSE IF Val(prevCountdown) <= 2 THEN None
  ELSE Some(Val(prevCountdown) - 1)

\* the value the updater prevCountdown => ... returns
CountdownAfterTick(prevCountdown) ==
  IF prevCountdown = None THEN None
  ELSE IF Val(prevCountdown) <= 1 THEN None
  ELSE Some(Val(prevCountdown) - 1)

\* captureFrameAndDetect() called one tick early as well
TickCallsCaptureEarly(prevCountdown) == prevCountdown # None /\ Val(prevCountdown) <= 2

\* the updater's branch that calls captureFrameAndDetect()
TickCallsCapture(prevCountdown) == prevCountdown # None /\ Val(prevCountdown) <= 1

\* the updater whose branch that ends the countdown lacks its clearInterval
TickClearsIntervalOnNullOnly(prevCountdown) == prevCountdown = None

\* the updater's branches that call clearInterval(countdownIntervalRef.current)
TickClearsInterval(prevCountdown) == prevCountdown = None \/ Val(prevCountdown) <= 1

\* the setInterval callback: setScanCountdown(prevCountdown => ...)
CountdownTick(t, outcome) ==
  /\ t \in timers
  /\ GrantedViewRendered \/ outcome = "videoNotReady"
  /\ now' = now + 1
  /\ scanCountdown' = SetState(CountdownAfterTick(scanCountdown), scanCountdown)
  /\ timers' = IF TickClearsInterval(scanCountdown)
               THEN ClearInterval(timers, countdownIntervalRef)
               ELSE timers
  /\ IF TickCallsCapture(scanCountdown)
     THEN /\ countdownsCompleted' = countdownsCompleted + 1
          /\ CaptureFrameAndDetect(outcome, t.history)
     ELSE /\ lastOp' = "tick"
          /\ UNCHANGED <<isLoading, error, detectInFlight>>
          /\ UNCHANGED <<countdownsCompleted, captureStarts, detectCalls>>
  /\ UNCHANGED <<camVars, histVars, speechVars, detectedFingers, isSpeaking>>
  /\ UNCHANGED <<countdownIntervalRef, scansStarted, lifeVars>>

\* the append without its duplicate check
ShouldAppendAlways(h, v) == TRUE

\* history.length === 0 || history[history.length - 1].value !== result.numberOfFingers,
\* on the `history` of the render whose captureFrameAndDetect is running
ShouldAppend(h, v) == Len(h) = 0 \/ Last(h).value # v

\* the append that also rewrites the timestamp of the entries it keeps
AppendHistoryRestamping(prevHistory, item) ==
  SliceLast(Append([i \in 1..Len(prevHistory) |->
                      [prevHistory[i] EXCEPT !.timestamp = item.timestamp]], item),
            HISTORY_LIMIT)

\* the append without its slice(-50)
AppendHistoryUntruncated(prevHistory, item) == Append(prevHistory, item)

\* setHistory(prevHistory => [...prevHistory, newHistoryItem].slice(-50))
AppendHistory(prevHistory, item) == SliceLast(Append(prevHistory, item), HISTORY_LIMIT)

\* the try block without its setError(null)
DetectResolvedKeepsError(d, v) ==
  /\ d \in detectInFlight
  /\ detectInFlight' = detectInFlight \ {d}
  /\ detectedFingers' = SetState(Some(v), detectedFingers)
  /\ error' = error
  /\ IF mounted /\ ShouldAppend(d.history, v)
     THEN /\ history' = AppendHistory(history, HistoryItem(nextId, v, now))
          /\ nextId' = nextId + 1
     ELSE UNCHANGED <<history, nextId>>
  /\ SpeakNumber
  /\ isLoading' = SetState(FALSE, isLoading)
  /\ lastOp' = "detectResolved"
  /\ UNCHANGED <<camVars, scanCountdown, selectedHistoryItemIds, calculationResult>>
  /\ UNCHANGED <<timerVars, speechSupported, countVars, lifeVars>>

\* the detection call resolves: the rest of the try block, then setIsLoading(false)
DetectResolved(d, v) ==
  /\ d \in detectInFlight
  /\ detectInFlight' = detectInFlight \ {d}
  /\ detectedFingers' = SetState(Some(v), detectedFingers)
  /\ error' = SetState(None, error)
  /\ IF mounted /\ ShouldAppend(d.history, v)
     THEN /\ history' = AppendHistory(history, HistoryItem(nextId, v, now))
          /\ nextId' = nextId + 1
     ELSE UNCHANGED <<history, nextId>>
  /\ SpeakNumber
  /\ isLoading' = SetState(FALSE, isLoading)
  /\ lastOp' = "detectResolved"
  /\ UNCHANGED <<camVars, scanCountdown, selectedHistoryItemIds, calculationResult>>
  /\ UNCHANGED <<timerVars, speechSupported, countVars, lifeVars>>

\* the catch block without the setIsLoading(false) that follows it
DetectRejectedKeepsLoading(d) ==
  /\ d \in detectInFlight
  /\ detectInFlight' = detectInFlight \ {d}
  /\ error' = SetState(Some(ERR_DETECTION), error)
  /\ lastOp' = "detectRejected"
  /\ UNCHANGED <<camVars, detectedFingers, isLoading, isSpeaking, scanCountdown>>
  /\ UNCHANGED <<histVars, timerVars, speechVars, countVars, lifeVars>>

\* the detection call rejects: the catch block, then setIsLoading(false)
DetectRejected(d) ==
  /\ d \in detectInFlight
  /\ detectInFlight' = detectInFlight \ {d}
  /\ error' = SetState(Some(ERR_DETECTION), error)
  /\ isLoading' = SetState(FALSE, isLoading)
  /\ lastOp' = "detectRejected"
  /\ UNCHANGED <<camVars, detectedFingers, isSpeaking, scanCountdown>>
  /\ UNCHANGED <<histVars, timerVars, speechVars, countVars, lifeVars>>

\* ------------------------------------------------- history and calculator
\* the history items a click is tried on: the oldest MaxSelectable entries
SelectableIds == {history[i].id : i \in 1..(IF Len(history) < MaxSelectable THEN Len(history) ELSE MaxSelectable)}

\* handleToggleHistoryItemSelection(id)
HandleToggleHistoryItemSelection(id) ==
  /\ GrantedViewRendered
  /\ id \in HistoryIds(history)
  /\ selectedHistoryItemIds' =
       IF Includes(selectedHistoryItemIds, id)
       THEN FilterOut(selectedHistoryItemIds, id)
       ELSE Append(selectedHistoryItemIds, id)
  /\ calculationResult' = None
  /\ lastOp' = "toggleSelection"
  /\ UNCHANGED <<camVars, scanVars, history, nextId, timerVars, detectInFlight, speechVars, countVars, lifeVars>>

\* handleClearSelection; the button is disabled while nothing is selected
HandleClearSelection ==
  /\ GrantedViewRendered
  /\ Len(selectedHistoryItemIds) # 0
  /\ selectedHistoryItemIds' = <<>>
  /\ calculationResult' = None
  /\ lastOp' = "clearSelection"
  /\ UNCHANGED <<camVars, scanVars, history, nextId, timerVars, detectInFlight, speechVars, countVars, lifeVars>>

\* handleClearHistory without its setCalculationResult(null)
HandleClearHistoryKeepsResult ==
  /\ GrantedViewRendered
  /\ Len(history) # 0
  /\ history' = <<>>
  /\ selectedHistoryItemIds' = <<>>
  /\ lastOp' = "clearHistory"
  /\ UNCHANGED <<camVars, scanVars, nextId, timerVars, detectInFlight, speechVars, countVars, lifeVars>>
  /\ UNCHANGED calculationResult

\* handleClearHistory; the button is disabled while the history is empty
HandleClearHistory ==
  /\ GrantedViewRendered
  /\ Len(history) # 0
  /\ history' = <<>>
  /\ selectedHistoryItemIds' = <<>>
  /\ calculationResult' = None
  /\ lastOp' = "clearHistory"
  /\ UNCHANGED <<camVars, scanVars, nextId, timerVars, detectInFlight, speechVars, countVars, lifeVars>>

Operations == {"add", "multiply", "divide"}

\* selectedItems.length < 2 && (operation === 'add' || operation === 'multiply')
TooFewToAddOrMultiply(operation, selectedItems) ==
  Len(selectedItems) < 2 /\ operation \in {"add", "multiply"}

\* the divide test with < 2 in place of !== 2
NotTwoToDivideAtLeast(operation, selectedItems) ==
  operation = "divide" /\ Len(selectedItems) < 2

\* operation === 'divide' && selectedItems.length !== 2
NotTwoToDivide(operation, selectedItems) ==
  operation = "divide" /\ Len(selectedItems) # 2

\* the value handleCalculation(operation) passes to setCalculationResult
Calculate(operation, h, sel) ==
  LET selectedItems == SelectedItems(h, sel)
      values == Values(selectedItems)
  IN IF TooFewToAddOrMultiply(operation, selectedItems)
     THEN MessageResult("Select at least 2 numbers to " \o operation)
     ELSE IF NotTwoToDivide(operation, selectedItems)
     THEN MessageResult("Select exactly 2 numbers to divide.")
     ELSE IF Len(selectedItems) = 0
     THEN MessageResult("No numbers selected.")
     ELSE CASE operation = "add" -> NumberResult(100 * ReduceSum(values))
            [] operation = "multiply" -> NumberResult(100 * ReduceProduct(values))
            [] operation = "divide" ->
                 IF values[2] = 0 THEN MessageResult("Cannot divide by zero.")
                 ELSE NumberResult(ToFixed2(values[1], values[2]))
            [] OTHER -> MessageResult("Invalid operation.")

\* handleCalculation that reports its messages through the main error as well
HandleCalculationSetsError(operation) ==
  /\ GrantedViewRendered
  /\ calculationResult' = Some(Calculate(operation, history, selectedHistoryItemIds))
  /\ error' = IF Calculate(operation, history, selectedHistoryItemIds).kind = "message"
               THEN Some(Calculate(operation, history, selectedHistoryItemIds).text)
               ELSE error
  /\ lastOp' = operation
  /\ UNCHANGED <<camVars, detectedFingers, isLoading, isSpeaking, scanCountdown>>
  /\ UNCHANGED <<history, selectedHistoryItemIds, nextId>>
  /\ UNCHANGED <<timerVars, detectInFlight, speechVars, countVars, lifeVars>>

\* handleCalculation(operation)
HandleCalculation(operation) ==
  /\ GrantedViewRendered
  /\ calculationResult' = Some(Calculate(operation, history, selectedHistoryItemIds))
  /\ lastOp' = operation
  /\ UNCHANGED <<camVars, scanVars, history, selectedHistoryItemIds, nextId>>
  /\ UNCHANGED <<timerVars, detectInFlight, speechVars, countVars, lifeVars>>

\* the component unmounts: the cleanup of the effect on [stream] stops the
\* tracks of the current `stream`; the cleanup of the mount effect clears the
\* interval of countdownIntervalRef and cancels the speech queue (the cancelled
\* utterance's end or error event is still delivered)
Unmount ==
  /\ mounted
  /\ mounted' = FALSE
  /\ liveStreams' = StreamEffectCleanup(liveStreams, stream)
  /\ timers' = ClearInterval(timers, countdownIntervalRef)
  /\ IF speechSupported
     THEN /\ utterance' = "none"
          /\ queuedUtterances' = 0
          /\ cancelledUtterances' = cancelledUtterances + InEngine(utterance, queuedUtterances)
     ELSE UNCHANGED <<utterance, queuedUtterances, cancelledUtterances>>
  /\ lastOp' = "unmount"
  /\ UNCHANGED <<camVars, scanVars, histVars, countdownIntervalRef, now, detectInFlight>>
  /\ UNCHANGED <<speechSupported, speakRequests, countVars>>

\* ------------------------------------------------------------ specification
\* the scan sequence: trigger, countdown, capture, detection, utterance
SequenceNext ==
  \/ HandleScanAndAnnounce
  \/ \E t \in timers, outcome \in CaptureOutcomes : CountdownTick(t, outcome)
  \/ \E d \in detectInFlight, v \in FingerValues : DetectResolved(d, v)
  \/ \E d \in detectInFlight : DetectRejected(d)
  \/ UtteranceStart
  \/ UtteranceEnd
  \/ UtteranceError
  \/ CancelledUtteranceEvent
  \/ VideoError

\* the history and calculator card
CardNext ==
  \/ \E id \in SelectableIds : HandleToggleHistoryItemSelection(id)
  \/ HandleClearSelection
  \/ HandleClearHistory
  \/ \E operation \in Operations : HandleCalculation(operation)

ScanNext == SequenceNext \/ CardNext

CameraNext ==
  \/ \E state \in {"granted", "denied", "prompt"} : PermissionQueryResolved(state)
  \/ EnableCamera
  \/ GetUserMediaResolved
  \/ \E class \in CameraErrorClasses : GetUserMediaRejected(class)

Next == CameraNext \/ ScanNext \/ Unmount

Spec == Init /\ [][Next]_vars

\* numberOfFingers: z.number() admits every number, negative ones and fractions
\* included; the integers among them, up to the bound
SchemaValues == (0 - MaxFinger)..MaxFinger

\* the scan sequence with every result the output schema admits
SchemaNext ==
  \/ HandleScanAndAnnounce
  \/ \E t \in timers, outcome \in CaptureOutcomes : CountdownTick(t, outcome)
  \/ \E d \in detectInFlight, v \in SchemaValues : DetectResolved(d, v)
  \/ \E d \in detectInFlight : DetectRejected(d)
  \/ UtteranceStart
  \/ UtteranceEnd
  \/ UtteranceError
  \/ CancelledUtteranceEvent

SpecSchema == Init /\ [][CameraNext \/ SchemaNext]_vars

\* What the scan sequence waits for, each of which the environment eventually
\* delivers: a running interval ticks, a detection call settles, a started
\* utterance ends or fails, and a cancelled utterance gets its end or error event
TimerTicks == \E t \in timers, outcome \in CaptureOutcomes : CountdownTick(t, outcome)

DetectionSettles ==
  \E d \in detectInFlight : DetectRejected(d) \/ \E v \in FingerValues : DetectResolved(d, v)

StartedUtteranceFinishes == utterance = "speaking" /\ (UtteranceEnd \/ UtteranceError)

Fairness ==
  /\ WF_vars(TimerTicks)
  /\ WF_vars(DetectionSettles)
  /\ WF_vars(StartedUtteranceFinishes)
  /\ WF_vars(CancelledUtteranceEvent)

\* the camera and the scan sequence of the component while it stays mounted,
\* with that environment; the selection and the calculator, which read and
\* write none of the scan flags, are left out
SpecLive == Init /\ [][CameraNext \/ SequenceNext \/ HandleClearHistory]_vars /\ Fairness

\* The history/calculator card over a history that earlier scans recorded:
\* up to MaxCalcHistory entries with counts up to MaxCalcValue, no two
\* neighbours equal, ids and timestamps in the order of the appends
CalcValues == 0..MaxCalcValue

CalcHistories ==
  UNION {{[i \in 1..n |-> HistoryItem(i, f[i], SCAN_COUNTDOWN_SECONDS * i)] :
            f \in {g \in [1..n -> CalcValues] : \A i \in 1..(n - 1) : g[i] # g[i + 1]}} :
         n \in 0..MaxCalcHistory}

InitCalc ==
  /\ InitCommon
  /\ permissionStatus = "granted"
  /\ stream = Some(1)
  /\ permissionQuery = "done"
  /\ getUserMediaPending = 0
  /\ nextStream = 2
  /\ liveStreams = {1}
  /\ history \in CalcHistories
  /\ detectedFingers = IF history = <<>> THEN None ELSE Some(Last(history).value)
  /\ nextId = Len(history) + 1
  /\ now = SCAN_COUNTDOWN_SECONDS * Len(history)

CalcNext ==
  \/ \E id \in HistoryIds(history) : HandleToggleHistoryItemSelection(id)
  \/ HandleClearSelection
  \/ HandleClearHistory
  \/ \E operation \in Operations : HandleCalculation(operation)

SpecCalc == InitCalc /\ [][CalcNext]_vars

\* A session that has already recorded HISTORY_LIMIT - 1 detections, alternating
\* 0 and 1, three ticks apart, the last announcement finished
PastHistory(n) == [i \in 1..n |-> HistoryItem(i, i % 2, SCAN_COUNTDOWN_SECONDS * i)]

InitFull ==
  /\ InitCommon
  /\ permissionStatus = "granted"
  /\ stream = Some(1)
  /\ permissionQuery = "done"
  /\ getUserMediaPending = 0
  /\ nextStream = 2
  /\ liveStreams = {1}
  /\ history = PastHistory(HISTORY_LIMIT - 1)
  /\ detectedFingers = Some(Last(history).value)
  /\ nextId = HISTORY_LIMIT
  /\ now = SCAN_COUNTDOWN_SECONDS * (HISTORY_LIMIT - 1)

SpecFull == InitFull /\ [][ScanNext]_vars

\* ------------------------------------------------------------------- claims
\* the step in which a detection call resolved and the mounted component
\* processed its result
DetectResolvedStep == mounted /\ lastOp' = "detectResolved" /\ detectInFlight' # detectInFlight
\* the step in which a detection call rejected under the mounted component
DetectRejectedStep == mounted /\ lastOp' = "detectRejected" /\ detectInFlight' # detectInFlight
\* the step in which captureFrameAndDetect gave up before the detection call
CaptureFailedStep == lastOp' = "captureFailed" /\ captureStarts' # captureStarts
\* a step of handleScanAndAnnounce
TriggerStep == lastOp' \in {"scanIgnored", "scanAccepted"}

\* C1: in every reachable state the history holds at most 50 entries.
C1_HistoryAtMostLimit == Len(history) <= HISTORY_LIMIT

\* C1 witness: two entries were appended to a history of 49, the second at capacity.
C1_Witness == Len(history) = HISTORY_LIMIT /\ nextId = HISTORY_LIMIT + 2

\* C2: no two adjacent history entries have the same value, and a successful
\* detection of the value of the store's last entry adds nothing.
C2_NoAdjacentDuplicates ==
  /\ [](\A i \in 1..(Len(history) - 1) : history[i].value # history[i + 1].value)
  /\ [][(DetectResolvedStep /\ history # <<>> /\ Last(history).value = Val(detectedFingers'))
          => history' = history]_vars

\* C2 witness: two detections succeeded in a row with the same count; the first
\* one's entry (a scan older) is the last entry and no second entry was added.
C2_Witness ==
  /\ lastOp = "detectResolved"
  /\ speakRequests = 2
  /\ nextId = HISTORY_LIMIT + 1
  /\ Len(history) = HISTORY_LIMIT
  /\ Last(history).value = Val(detectedFingers)
  /\ Last(history).timestamp + SCAN_COUNTDOWN_SECONDS <= now

\* C3 (as claimed): a successful detection of v appends an entry with value v
\* exactly when the store, as it is at that moment, is empty or ends with
\* another value.
C3_AppendDecidedOnCurrentStore ==
  [][DetectResolvedStep =>
       IF history = <<>> \/ Last(history).value # Val(detectedFingers')
       THEN /\ history' # history
            /\ Last(history').value = Val(detectedFingers')
            /\ Last(history').id \notin HistoryIds(history)
       ELSE history' = history]_vars

\* C4: an append keeps the old entries in order and puts the new entry last;
\* below 50 entries nothing is dropped, at 50 only the oldest entry is.
C4_FifoEviction ==
  [][nextId' # nextId =>
       /\ history' # <<>>
       /\ Last(history').id = nextId
       /\ Last(history').value = Val(detectedFingers')
       /\ IF Len(history) < HISTORY_LIMIT
          THEN history' = Append(history, Last(history'))
          ELSE /\ Len(history') = HISTORY_LIMIT
               /\ \A i \in 1..(HISTORY_LIMIT - 1) : history'[i] = history[i + 1]]_vars

\* C4 witness: the entry with the oldest id is gone and the newest entry is last.
C4_Witness ==
  /\ Len(history) = HISTORY_LIMIT
  /\ history[1].id = 2
  /\ Last(history).id = HISTORY_LIMIT + 1

\* C5: a trigger in a scan state other than Idle changes nothing of the scan
\* state, the countdown, the detected value, the error, the history and the timers.
C5_TriggerIgnoredWhenNotIdle ==
  [][(TriggerStep /\ ScanState # "Idle") =>
       UNCHANGED <<scanCountdown, isLoading, isSpeaking, detectedFingers, error,
                   history, timers, countdownIntervalRef, scansStarted>>]_vars

\* C5 witness: a trigger was received, and ignored, while speaking.
C5_Witness == lastOp = "scanIgnored" /\ ScanState = "Speaking" /\ utterance = "speaking"

\* C6 (as claimed): a countdown or a capture runs only when no utterance of an
\* earlier scan is queued or being spoken.
C6_OneScanSequenceInFlight ==
  (scanCountdown # None \/ isLoading) => utterance = "none"

\* C7: captureFrameAndDetect starts in exactly the steps that complete a
\* countdown, once; a detection call is issued only by such a start, at most once.
C7_CaptureOncePerCountdown ==
  [][/\ (captureStarts' # captureStarts) <=> (scanCountdown # None /\ scanCountdown' = None)
     /\ captureStarts' \in {captureStarts, captureStarts + 1}
     /\ detectCalls' \in {detectCalls, detectCalls + 1}
     /\ detectCalls' - detectCalls <= captureStarts' - captureStarts]_vars

\* C7 witness: two countdowns completed, two captures started, one of which
\* reached the detection client.
C7_Witness == countdownsCompleted = 2 /\ captureStarts = 2 /\ detectCalls = 1

\* C8: a failed capture calls no detection, adds no history entry, requests no
\* utterance, sets the error and leaves the loading flag false and the countdown null.
C8_CaptureFailure ==
  [][CaptureFailedStep =>
       /\ detectCalls' = detectCalls
       /\ detectInFlight' = detectInFlight
       /\ history' = history
       /\ speakRequests' = speakRequests
       /\ utterance' = utterance
       /\ error' # None
       /\ isLoading' = FALSE
       /\ scanCountdown' = None]_vars

\* C8 witness: a capture failed because the video element was no longer rendered.
C8_Witness == lastOp = "captureFailed" /\ permissionStatus = "denied" /\ error = Some(ERR_VIDEO_NOT_READY)

\* C9 (as claimed): a failed detection call leaves the history alone, requests
\* no utterance, leaves the detected value unset, sets the error and returns
\* the scan state to Idle.
C9_DetectionFailure ==
  [][DetectRejectedStep =>
       /\ history' = history
       /\ speakRequests' = speakRequests
       /\ utterance' = utterance
       /\ detectedFingers' = None
       /\ error' # None
       /\ ScanState' = "Idle"]_vars

\* C10 (as claimed): a successful detection moves Capturing to Speaking (where
\* the browser can speak at all), a failed capture or detection moves it to
\* Idle, and Speaking is left for Idle.
C10_TransitionsAfterCapture ==
  [][/\ (DetectResolvedStep /\ speechSupported) => ScanState' = "Speaking"
     /\ (CaptureFailedStep \/ DetectRejectedStep) => ScanState' = "Idle"
     /\ (ScanState = "Speaking" /\ ScanState' # "Speaking") => ScanState' = "Idle"]_vars

\* C11: an accepted trigger starts the countdown at SCAN_COUNTDOWN_SECONDS; a
\* tick with more than one second remaining lowers the remaining value by
\* exactly one and starts no capture; the tick that brings the remaining value
\* from 1 to 0 ends the countdown and starts the capture, and nothing else
\* changes the countdown or starts a capture.
C11_CountdownToZero ==
  [][/\ (lastOp' = "scanAccepted") => scanCountdown' = Some(SCAN_COUNTDOWN_SECONDS)
     /\ (scanCountdown # None /\ scanCountdown' # scanCountdown) => now' = now + 1
     /\ (scanCountdown # None /\ now' # now) =>
          IF Val(scanCountdown) - 1 > 0
          THEN /\ scanCountdown' = Some(Val(scanCountdown) - 1)
               /\ captureStarts' = captureStarts
               /\ isLoading' = isLoading
          ELSE /\ Val(scanCountdown) - 1 = 0
               /\ scanCountdown' = None
               /\ captureStarts' = captureStarts + 1
     /\ (captureStarts' # captureStarts) => scanCountdown = Some(1)
     /\ (isLoading' /\ ~isLoading) => scanCountdown = Some(1)]_vars

\* C11 witness: the third tick after the trigger ended the countdown and issued
\* the detection call.
C11_Witness ==
  /\ lastOp = "detectCalled"
  /\ scansStarted = 1
  /\ now = SCAN_COUNTDOWN_SECONDS
  /\ scanCountdown = None
  /\ isLoading

\* C13 (as claimed): once the component is unmounted, no stream it acquired has
\* live tracks, also when the acquisition was pending at the unmount and
\* resolved afterwards.
C13_StreamsReleasedAfterUnmount == ~mounted => liveStreams = {}

\* C14 (as claimed): once the component is unmounted, no countdown interval is
\* running and no utterance is queued or being spoken, also when a detection
\* call was in flight at the unmount and its result arrived afterwards.
C14_QuietAfterUnmount == ~mounted => (timers = {} /\ utterance = "none")

\* C12: every accepted trigger is followed, sooner or later, by the scan state
\* Idle, given that intervals tick, detection calls settle and the speech
\* engine delivers the end or error of the utterances it started.
C12_AcceptedScanReturnsToIdle == (lastOp = "scanAccepted") ~> (ScanState = "Idle")

\* C12 witness: the second accepted scan went through countdown, capture,
\* detection and utterance and the scan state is Idle again.
C12_Witness ==
  /\ scansStarted = 2
  /\ detectCalls = 2
  /\ speakRequests = 2
  /\ lastOp = "utteranceEnd"
  /\ ScanState = "Idle"

\* C15: Clear All, from whatever state it is clicked in, leaves the history
\* empty, the selection empty and the calculation result unset.
C15_ClearAll ==
  [][lastOp' = "clearHistory" =>
       /\ history' = <<>>
       /\ selectedHistoryItemIds' = <<>>
       /\ calculationResult' = None]_vars

\* C15 witness: Clear All was clicked while a scan was counting down over a
\* history that held an entry.
C15_Witness ==
  /\ lastOp = "clearHistory"
  /\ scanCountdown # None
  /\ nextId > 1
  /\ history = <<>>

\* C16 (as claimed): every step that changes the history (an append, an
\* append that evicts the oldest entry, Clear All) leaves the selection empty.
C16_SelectionClearedOnHistoryMutation ==
  [][history' # history => selectedHistoryItemIds' = <<>>]_vars

\* the positions of the history entries that are selected
SelectedPositions ==
  {i \in 1..Len(history) : \E k \in 1..Len(selectedHistoryItemIds) :
                             selectedHistoryItemIds[k] = history[i].id}

\* the calculation result is the number hundredths / 100
ResultIsNumber(hundredths) ==
  /\ calculationResult # None
  /\ Val(calculationResult).kind = "number"
  /\ Val(calculationResult).hundredths = hundredths

\* the calculation result is a message, not a number
ResultIsMessage ==
  /\ calculationResult # None
  /\ Val(calculationResult).kind = "message"
  /\ Val(calculationResult).text # ""

\* the calculation result is a / b rounded to the nearest multiple of 0.01
\* (upward from the middle)
ResultIsRoundedQuotient(a, b) ==
  /\ calculationResult # None
  /\ Val(calculationResult).kind = "number"
  /\ LET q == Val(calculationResult).hundredths
     IN 2 * b * q <= 200 * a + b /\ 200 * a + b < 2 * b * q + 2 * b

\* C17 (as claimed): divide uses the selected values in the order in which
\* they were selected: with the entry at position i selected first and the
\* entry at position j second, the result is value i / value j.
C17_DivideInSelectionOrder ==
  \A i, j \in 1..Len(history) :
    (/\ lastOp = "divide"
     /\ i # j
     /\ selectedHistoryItemIds = <<history[i].id, history[j].id>>
     /\ history[j].value # 0)
    => ResultIsRoundedQuotient(history[i].value, history[j].value)

RECURSIVE SumAt(_)
SumAt(positions) ==
  IF positions = {} THEN 0
  ELSE LET i == CHOOSE i \in positions : TRUE
       IN history[i].value + SumAt(positions \ {i})

RECURSIVE ProductAt(_)
ProductAt(positions) ==
  IF positions = {} THEN 1
  ELSE LET i == CHOOSE i \in positions : TRUE
       IN history[i].value * ProductAt(positions \ {i})

\* C18: with two or more entries selected, add yields the sum of their values
\* and multiply yields their product, as a number.
C18_AddAndMultiply ==
  /\ (lastOp = "add" /\ Cardinality(SelectedPositions) >= 2)
       => ResultIsNumber(100 * SumAt(SelectedPositions))
  /\ (lastOp = "multiply" /\ Cardinality(SelectedPositions) >= 2)
       => ResultIsNumber(100 * ProductAt(SelectedPositions))

\* C18 witness: multiply over the three selected entries 2, 3 and 4 gave 24.
C18_Witness ==
  /\ lastOp = "multiply"
  /\ Len(history) = 3
  /\ Len(selectedHistoryItemIds) = 3
  /\ history[1].value = 2 /\ history[2].value = 3 /\ history[3].value = 4
  /\ ResultIsNumber(2400)

\* C19: divide with exactly two entries selected, the values a and b as the
\* calculator receives them: if b is 0 the result is a message and not a
\* number; otherwise it is a / b rounded to two decimals; 6 and 3 give 2.
C19_Divide ==
  \A i, j \in SelectedPositions :
    (lastOp = "divide" /\ i < j /\ Cardinality(SelectedPositions) = 2) =>
      /\ IF history[j].value = 0
         THEN ResultIsMessage
         ELSE ResultIsRoundedQuotient(history[i].value, history[j].value)
      /\ (history[i].value = 6 /\ history[j].value = 3) => ResultIsNumber(200)

\* C19 witness: 2 divided by 3 gave 0.67.
C19_Witness ==
  /\ lastOp = "divide"
  /\ Len(history) = 2
  /\ history[1].value = 2
  /\ history[2].value = 3
  /\ Len(selectedHistoryItemIds) = 2
  /\ ResultIsNumber(67)

\* C20: add or multiply with fewer than two selected entries, and divide with
\* a number of selected entries other than two, yield a message, not a number.
C20_ArityViolation ==
  /\ (lastOp \in {"add", "multiply"} /\ Cardinality(SelectedPositions) < 2) => ResultIsMessage
  /\ (lastOp = "divide" /\ Cardinality(SelectedPositions) # 2) => ResultIsMessage

\* C20 witness: divide with three entries selected was answered with the
\* message that asks for exactly two.
C20_Witness ==
  /\ lastOp = "divide"
  /\ Cardinality(SelectedPositions) = 3
  /\ calculationResult = Some(MessageResult("Select exactly 2 numbers to divide."))

\* C21: a speech failure stays a notice.  When the browser has no speech
\* synthesis, the detection that asks for the announcement still shows its
\* value, leaves no main error, leaves the selection alone, queues nothing and
\* leaves the speaking flag false; when an utterance reports an error (also the
\* late error of a cancelled one), the detected value, the main error, the
\* history and the selection are unchanged and the speaking flag is false.
C21_SpeechFailureIsNotice ==
  [][/\ (DetectResolvedStep /\ ~speechSupported) =>
          /\ detectedFingers' # None
          /\ error' = None
          /\ selectedHistoryItemIds' = selectedHistoryItemIds
          /\ utterance' = utterance
          /\ isSpeaking' = FALSE
     /\ (mounted /\ lastOp' \in {"utteranceError", "cancelledUtteranceEvent"}) =>
          /\ UNCHANGED <<detectedFingers, error, history, selectedHistoryItemIds>>
          /\ isSpeaking' = FALSE]_vars

\* C21 witness: an utterance failed while being spoken, next to a main error
\* (of the video element) that is still displayed.
C21_Witness ==
  /\ lastOp = "utteranceError"
  /\ mounted
  /\ detectedFingers # None
  /\ error = Some(ERR_VIDEO_ELEMENT)
  /\ ~isSpeaking

\* C22: a calculation step, whatever its result, changes nothing but the
\* calculation result: the history, the selection, the scan flags, the
\* detected value and the main error stay as they were.
C22_CalculationChangesResultOnly ==
  [][lastOp' \in Operations =>
       /\ calculationResult' # None
       /\ UNCHANGED <<history, selectedHistoryItemIds>>
       /\ UNCHANGED <<scanCountdown, isLoading, isSpeaking, detectedFingers, error>>]_vars

\* C22 witness: an add over two selected entries gave a number, the detected
\* value of the last scan still displayed.
C22_Witness ==
  /\ lastOp = "add"
  /\ Len(selectedHistoryItemIds) = 2
  /\ calculationResult # None
  /\ Val(calculationResult).kind = "number"
  /\ detectedFingers = Some(Last(history).value)

\* C23: the speech engine never holds more than one utterance, queued or
\* being spoken: a request to speak first cancels what the engine holds.
C23_AtMostOneUtterance ==
  /\ [](InEngine(utterance, queuedUtterances) <= 1)
  /\ [][speakRequests' # speakRequests =>
          /\ utterance' = "pending"
          /\ queuedUtterances' = 0
          /\ cancelledUtterances' = cancelledUtterances + InEngine(utterance, queuedUtterances)]_vars

\* C23 witness: the announcement of a second scan was requested while the
\* first scan's utterance was being spoken; that one was cancelled and the new
\* one is the only utterance of the engine.
C23_Witness ==
  /\ lastOp = "detectResolved"
  /\ speakRequests = 2
  /\ cancelledUtterances = 1
  /\ isSpeaking
  /\ utterance = "pending"
  /\ queuedUtterances = 0

\* C24 (as claimed): while the component is mounted, the speaking flag is true
\* whenever the current utterance is being spoken, and it is true only if an
\* utterance is being spoken or a started utterance was cancelled and its end
\* or error event is still to come.
C24_SpeakingFlagTracksUtterance ==
  mounted =>
    /\ (utterance = "speaking" => isSpeaking)
    /\ (isSpeaking => (utterance = "speaking" \/ cancelledUtterances > 0))

\* C25 (as claimed): every value stored in a history entry is a non-negative
\* integer, whatever result the detection call returns within its output schema.
C25_HistoryValuesNonNegative ==
  \A i \in 1..Len(history) : history[i].value \in Nat

\* C26 (as claimed): the history changes only by a successful detection adding
\* one entry with a fresh id behind the unchanged old entries, or by Clear All
\* removing them; no other step creates, changes or removes an entry.
C26_EntriesRemovedOnlyByClearAll ==
  [][history' # history =>
       \/ lastOp' = "clearHistory" /\ history' = <<>>
       \/ /\ DetectResolvedStep
          /\ history' # <<>>
          /\ Last(history').id \notin HistoryIds(history)
          /\ history' = Append(history, Last(history'))]_vars

\* C26 (amended): as above, and a successful detection that appends to a
\* history of HISTORY_LIMIT entries also removes the oldest entry: an entry
\* leaves the store by Clear All or by that eviction, and is never changed.
C26_EntriesRemovedByClearAllOrEviction ==
  [][history' # history =>
       \/ lastOp' = "clearHistory" /\ history' = <<>>
       \/ /\ DetectResolvedStep
          /\ history' # <<>>
          /\ Last(history').id \notin HistoryIds(history)
          /\ \/ history' = Append(history, Last(history'))
             \/ /\ Len(history) = HISTORY_LIMIT
                /\ history' = Append(Tail(history), Last(history'))]_vars

\* C26 witness: a successful detection evicted the oldest entry; the entry
\* that is now the oldest is as it was created.
C26_Witness ==
  /\ lastOp = "detectResolved"
  /\ Len(history) = HISTORY_LIMIT
  /\ history[1] = HistoryItem(2, 0, 2 * SCAN_COUNTDOWN_SECONDS)
  /\ Last(history).id = HISTORY_LIMIT + 1

\* C27 (as claimed): a camera acquisition that succeeds leaves the permission
\* status 'granted' and a stream held; one that fails leaves the status
\* 'denied', no stream held and the error set to the message of its class; and
\* once no acquisition is pending the status is not 'pending'.
C27_AcquisitionOutcomes ==
  /\ []((mounted /\ getUserMediaPending = 0) => permissionStatus # "pending")
  /\ [][/\ (mounted /\ lastOp' = "cameraGranted") =>
             (permissionStatus' = "granted" /\ stream' # None)
        /\ (mounted /\ lastOp' = "cameraFailed") =>
             /\ permissionStatus' = "denied"
             /\ stream' = None
             /\ error' \in {Some(CameraErrorMessage(class)) : class \in CameraErrorClasses}]_vars

\* C28: a successful detection shows its count, clears the main error and
\* asks the speech engine for one utterance (where the browser has one); the
\* count shown is the one stored when an entry is added; and from an accepted
\* trigger until the detection of that scan succeeds no detected value is
\* shown: it is unset by the trigger and set by nothing but a success.
C28_DetectedValueRouting ==
  /\ []((mounted /\ (scanCountdown # None \/ isLoading)) => detectedFingers = None)
  /\ [][/\ DetectResolvedStep =>
             /\ detectedFingers' # None
             /\ error' = None
             /\ speakRequests' = speakRequests + (IF speechSupported THEN 1 ELSE 0)
             /\ (nextId' # nextId => Last(history').value = Val(detectedFingers'))
        /\ (lastOp' = "scanAccepted") => detectedFingers' = None
        /\ (detectedFingers' # detectedFingers /\ detectedFingers' # None)
             => DetectResolvedStep]_vars

\* C28 witness: the second scan's detection succeeded where the first one's
\* had failed; its count is shown, no error is, and one utterance was requested.
C28_Witness ==
  /\ lastOp = "detectResolved"
  /\ mounted
  /\ detectCalls = 2
  /\ speakRequests = 1
  /\ detectedFingers = Some(1)
  /\ error = None
  /\ utterance = "pending"

\* C29 (as claimed): every id of the selection is the id of an entry of the history.
C29_SelectionWithinHistory ==
  \A k \in 1..Len(selectedHistoryItemIds) : selectedHistoryItemIds[k] \in HistoryIds(history)

\* C30 (as claimed): a calculation run while its button is enabled (add and
\* multiply with two or more selected ids, divide with exactly two) gives a
\* number or the divide-by-zero message, never an arity message.
C30_EnabledButtonPassesArityCheck ==
  ((lastOp \in {"add", "multiply"} /\ Len(selectedHistoryItemIds) >= 2)
     \/ (lastOp = "divide" /\ Len(selectedHistoryItemIds) = 2))
  => /\ calculationResult # None
     /\ \/ Val(calculationResult).kind = "number"
        \/ Val(calculationResult) = MessageResult("Cannot divide by zero.")

\* C31 (as claimed): while the component is mounted, at most one of the three
\* flags of the scan state holds: the countdown is non-null, loading is true,
\* speaking is true.
C31_ScanFlagsMutuallyExclusive ==
  mounted =>
    /\ ~(scanCountdown # None /\ isLoading)
    /\ ~(scanCountdown # None /\ isSpeaking)
    /\ ~(isLoading /\ isSpeaking)

\* C32 (as claimed): at most one camera stream has live tracks at any time,
\* and a stream with live tracks is the one held in state: a stream that was
\* replaced, or that was never stored, has its tracks stopped.
C32_AtMostOneLiveStream ==
  /\ Cardinality(liveStreams) <= 1
  /\ \A s \in liveStreams : stream = Some(s)

\* C33: at most one countdown interval is running at any time; an interval is
\* running only while the countdown is non-null; the tick that ends the
\* countdown clears the interval; and a tick is delivered only in the scan
\* state CountingDown, never in Idle, Capturing or Speaking.
C33_OneCountdownInterval ==
  /\ [](Cardinality(timers) <= 1)
  /\ [](timers # {} => scanCountdown # None)
  /\ [][/\ (scanCountdown # None /\ scanCountdown' = None) => timers' = {}
        /\ (now' # now) => ScanState = "CountingDown"]_vars

\* C33 witness: a second countdown, whose interval replaced the first in
\* countdownIntervalRef, ended with its last tick and no interval is running.
C33_Witness ==
  /\ mounted
  /\ countdownIntervalRef = Some(2)
  /\ countdownsCompleted = 2
  /\ now = 2 * SCAN_COUNTDOWN_SECONDS
  /\ scanCountdown = None
  /\ timers = {}

====
